---- MODULE Spec2Model ----
(***************************************************************************)
(* Model of the UniUnity content-management backend: the Express/Mongoose  *)
(* server in its three variants that carry the admin seed, the auth        *)
(* endpoint, the blog CRUD endpoints and the config upsert                 *)
(*   part_000   src/unnamed/part_000          (no validation, no catch)    *)
(*   server_js  src/backend/server.js:174-336 (catch, 404, rotation gate)  *)
(*   part_002   src/unnamed/part_002          (validation, catch, gate)    *)
(* Every await on the database is one atomic step; a handler with a single *)
(* database operation is one action, the config update (findOne, then      *)
(* findOneAndUpdate) and the admin seed (countDocuments, then create) are  *)
(* two, so that concurrent requests interleave between them.               *)
(* The storage connection at startup is modelled for those three and for   *)
(* src/unnamed/part_001, which connects once and does not retry.           *)
(* Whether an undefined value in an update is written as null or dropped   *)
(* depends on the Mongoose release: omitUndefined is either, for the run.  *)
(***************************************************************************)
EXTENDS Integers, Sequences, FiniteSets, TLC

VARIABLES variant, omitUndefined, admins, seedPc, config, reqs, res, blogs, nextId, conn, client

vars == <<variant, omitUndefined, admins, seedPc, config, reqs, res, blogs, nextId, conn, client>>

\* Bounds of the model.
NumSlots == 2
NumSalts == 1
NumStarts == 2
MaxBlogs == 2
MaxAttempts == 3
NumOps == 2

MaxClientPosts == 1

Variants == {"part_000", "server_js", "part_002"}

\* A field the request did not carry, or a path a document does not hold
\* (undefined / null in the source).
Undefined == "undefined"
\* An absent (undefined, null or '') stored hash.
NoHash == <<>>

DefaultPassword == "UniUnity2025!"
Passwords == {"pwA", "pwB", "pwC"}
Salts == 1..NumSalts
Slots == 1..NumSlots
Starts == 1..NumStarts

\* JavaScript truthiness of a string-or-undefined value: !x is true of
\* undefined and of ''.
Truthy(x) == x # Undefined /\ x # ""

\* x || ''
OrEmpty(x) == IF Truthy(x) THEN x ELSE ""

----------------------------------------------------------------------------
\* bcrypt: a salted one-way hash. A hash is the pair of the password it was
\* made from and the salt drawn for it; compare accepts exactly the data the
\* hash was made from, and rejects anything against a string that is no hash.
BcryptHashOfEmpty(data, salt) == <<"", salt>>

BcryptHash(data, salt) == <<data, salt>>

BcryptCompareAlways(data, hash) == TRUE

BcryptCompare(data, hash) == Len(hash) = 2 /\ hash[1] = data

----------------------------------------------------------------------------
\* Which hardening each server variant carries.
HasCatch(v) == v \in {"server_js", "part_002"}

\* The response to a rejected database promise: the catch block's 500, or
\* none (status 0) where the handler has no catch.
Thrown(v) == IF HasCatch(v) THEN 500 ELSE 0

AuthValidates(v) == v = "part_002"

ConfigHasGate(v) == v \in {"server_js", "part_002"}

----------------------------------------------------------------------------
\* Mongoose update casting of one $set path: an undefined value is dropped
\* from the update (the path keeps its value) by the Mongoose releases that
\* strip undefined keys, and sent as null by those that do not.
SetPath(old, new, undef) ==
    IF new = undef THEN (IF omitUndefined THEN old ELSE undef) ELSE new

\* A Config document: the top-level paths of configSchema; banner, seo and
\* homepageAd are nested objects, which an update replaces wholesale, each
\* held as one value. A path the document does not hold is Undefined.
EmptyConfig ==
    [title |-> Undefined, favicon |-> Undefined, banner |-> Undefined,
     seo |-> Undefined, homepageAd |-> Undefined,
     adminUsername |-> Undefined, adminPassword |-> NoHash]

\* A key of ...configData: the request body carries it, or it is absent
\* from the update (JSON has no undefined) and the path keeps its value.
SpreadPath(old, new) == IF new = Undefined THEN old ELSE new

\* An insert in place of the upsert.
InsertAlways(coll, update) ==
    Append(coll, [EmptyConfig EXCEPT !.title = update.title,
                                     !.adminPassword = update.adminPassword])

\* Config.findOneAndUpdate({}, update, { upsert: true, new: true }) on the
\* collection coll: the first document is updated, or one is inserted.
FindOneAndUpdate(coll, update) ==
    LET old == IF coll = <<>> THEN EmptyConfig ELSE Head(coll)
        new == [title |-> SpreadPath(old.title, update.title),
                favicon |-> SpreadPath(old.favicon, update.favicon),
                banner |-> SpreadPath(old.banner, update.banner),
                seo |-> SpreadPath(old.seo, update.seo),
                homepageAd |-> SpreadPath(old.homepageAd, update.homepageAd),
                adminUsername |-> SetPath(old.adminUsername, update.adminUsername, Undefined),
                adminPassword |-> SetPath(old.adminPassword, update.adminPassword, NoHash)]
    IN  IF coll = <<>> THEN <<new>> ELSE <<new>> \o Tail(coll)

----------------------------------------------------------------------------
\* The request bodies the endpoints are driven with.
Usernames == {Undefined, "admin", "editor"}
AuthPasswords == {Undefined, "", DefaultPassword, "pwA"}

ConfigBodies ==
    [title : {Undefined, "X", "T"},
     favicon : {Undefined, "F"},
     banner : {Undefined, "B"},
     seo : {Undefined, "S"},
     homepageAd : {Undefined, "H"},
     adminUsername : {Undefined, "root"},
     adminPassword : {Undefined} \cup Passwords,
     currentPassword : {Undefined, "pwA"}]

\* The bodies of the password rotations and of the updates that send no
\* password: no other field is sent.
NoBody ==
    [title |-> Undefined, favicon |-> Undefined, banner |-> Undefined,
     seo |-> Undefined, homepageAd |-> Undefined, adminUsername |-> Undefined,
     adminPassword |-> Undefined, currentPassword |-> Undefined]

PwBodies ==
    {[NoBody EXCEPT !.adminPassword = a, !.currentPassword = c] :
        a \in {Undefined} \cup Passwords, c \in {Undefined, "pwA"}}

\* { ...configData, adminUsername, adminPassword: hash }: the update document
\* (currentPassword, no path of the schema, is dropped by the cast).
ConfigUpdate(body, hash) ==
    [title |-> body.title, favicon |-> body.favicon, banner |-> body.banner,
     seo |-> body.seo, homepageAd |-> body.homepageAd,
     adminUsername |-> body.adminUsername, adminPassword |-> hash]

\* A request slot: pc is where the handler stands, body its req.body, hadDoc
\* and curPw what its findOne returned (currentConfig non-null, and
\* currentConfig?.adminPassword), status the response it sent (0: none).
IdleReq == [pc |-> "idle", body |-> NoBody, hadDoc |-> FALSE, curPw |-> NoHash, status |-> 0]

\* What is kept of a request once it is answered: the passwords it carried,
\* what its findOne saw, and its response.
Answered(r, status) ==
    [r EXCEPT !.pc = "done", !.status = status,
              !.body = [NoBody EXCEPT !.adminPassword = r.body.adminPassword,
                                      !.currentPassword = r.body.currentPassword]]

\* The last response sent by a single-operation handler; n alternates so that
\* every response is a step, also one equal to the response before it.
NoRes == [ep |-> "none", status |-> 0, n |-> 0]

----------------------------------------------------------------------------
\* The client state store (zustand, persisted to sessionStorage).
NullError == "null"

\* defaultConfig of the store; each nested object is held as one value.
DefaultClientConfig ==
    [EmptyConfig EXCEPT !.title = "UniUnity.space", !.favicon = "/favicon.ico",
                        !.banner = "defaultBanner", !.seo = "defaultSeo",
                        !.homepageAd = "defaultAd"]

OpIds == 1..NumOps

\* One of the two fetches of initialize: pending, failed, or resolved with
\* its response data.
Pending == [st |-> "pending", data |-> <<>>]

Resolved(data) == [st |-> "ok", data |-> <<data>>]

Rejected == [st |-> "failed", data |-> <<>>]
InFlight == [st |-> "answered", data |-> <<>>]

\* A store operation in flight: its kind, and for initialize its two fetches.
NoOp == [kind |-> "none", cfg |-> Pending, posts |-> Pending]

OpOf(kind) == [kind |-> kind, cfg |-> Pending, posts |-> Pending]

\* partialize: what the persist middleware writes at every set.
Partialize(c) == [isAuthenticated |-> c.isAuthenticated, config |-> c.config]

\* sessionStorage of a new browser session.
FreshSession == [isAuthenticated |-> FALSE, config |-> DefaultClientConfig]

\* The store right after its module is loaded: the initial state, rehydrated
\* from sessionStorage, with the initialize() of store creation in flight;
\* effectDue is the useEffect of the Admin page that calls initialize() when
\* isAuthenticated is true.
StoreCreated(persisted) ==
    [isAuthenticated |-> persisted.isAuthenticated,
     config |-> persisted.config,
     blogPosts |-> <<>>,
     loading |-> TRUE,
     error |-> NullError,
     returned |-> "none",
     effectDue |-> persisted.isAuthenticated,
     persisted |-> persisted,
     ops |-> [o \in OpIds |-> IF o = 1 THEN OpOf("initialize") ELSE NoOp]]

\* The storage connection at module load: the first mongoose.connect is
\* pending; up is whether storage is reachable, attempts the connects made
\* (counted up to MaxAttempts), timer the seconds left of the backoff.
ConnStart(up) == [pc |-> "connecting", attempts |-> 1, timer |-> 0, up |-> up]

Init ==
    /\ variant \in Variants
    /\ omitUndefined \in BOOLEAN
    /\ admins = <<>>
    /\ seedPc = [p \in Starts |-> "start"]
    /\ config = <<>>
    /\ reqs = [s \in Slots |-> IdleReq]
    /\ res = NoRes
    /\ blogs = {}
    /\ nextId = 1
    /\ conn = ConnStart(TRUE)
    /\ client = StoreCreated(FreshSession)

----------------------------------------------------------------------------
\* Admin seed, run at every process start: countDocuments, then create.
AdminCount == Cardinality({i \in DOMAIN admins : admins[i].email = "admin"})

SeedCount(p, ok) ==
    /\ seedPc[p] = "start"
    /\ seedPc' = [seedPc EXCEPT ![p] =
                    IF ~ok THEN "failed" ELSE IF AdminCount = 0 THEN "create" ELSE "done"]
    /\ UNCHANGED <<client, conn, variant, omitUndefined, admins, config, reqs, res, blogs, nextId>>

SeedCreate(p, salt, ok) ==
    /\ seedPc[p] = "create"
    /\ IF ok
         THEN /\ admins' = Append(admins, [email |-> "admin",
                                           password |-> BcryptHash(DefaultPassword, salt)])
              /\ seedPc' = [seedPc EXCEPT ![p] = "done"]
         ELSE /\ admins' = admins
              /\ seedPc' = [seedPc EXCEPT ![p] = "failed"]
    /\ UNCHANGED <<client, conn, variant, omitUndefined, config, reqs, res, blogs, nextId>>

----------------------------------------------------------------------------
\* POST /api/auth.
\* Admin.findOne({ email: username }): the first matching document, or <<>>.
FindAdmin(username) ==
    LET m == {i \in DOMAIN admins : admins[i].email = username}
    IN  IF m = {} THEN <<>> ELSE <<admins[CHOOSE i \in m : \A j \in m : i <= j]>>

AuthStatus(username, password, ok) ==
    IF AuthValidates(variant) /\ (~Truthy(username) \/ ~Truthy(password)) THEN 400
    ELSE IF ~ok THEN Thrown(variant)
    ELSE LET admin == FindAdmin(username)
         IN  IF admin = <<>> THEN 401
             ELSE IF password = Undefined THEN Thrown(variant)
             ELSE IF BcryptCompare(password, admin[1].password) THEN 200
             ELSE 401

PostAuthHandler(username, password, ok) ==
    /\ res' = [ep |-> "auth", n |-> 1 - res.n, username |-> username, password |-> password, dbOk |-> ok,
               status |-> AuthStatus(username, password, ok),
               lookedUp |-> ~(AuthValidates(variant) /\ (~Truthy(username) \/ ~Truthy(password))),
               compared |-> /\ ~(AuthValidates(variant) /\ (~Truthy(username) \/ ~Truthy(password)))
                            /\ ok
                            /\ FindAdmin(username) # <<>>]
    /\ UNCHANGED <<conn, variant, omitUndefined, admins, seedPc, config, reqs, blogs, nextId>>

PostAuth(username, password, ok) == PostAuthHandler(username, password, ok) /\ UNCHANGED client

----------------------------------------------------------------------------
\* POST /api/config with the rotation gate: findOne, then findOneAndUpdate.
PostConfigFindUngated(s, body, ok) ==
    /\ ConfigHasGate(variant)
    /\ reqs[s].pc \in {"idle", "done"}
    /\ LET hadDoc == config # <<>>
           curPw == IF hadDoc THEN Head(config).adminPassword ELSE NoHash
           r == [IdleReq EXCEPT !.body = body]
       IN  reqs' = [reqs EXCEPT ![s] =
                IF ~ok THEN Answered(r, 500)
                ELSE [r EXCEPT !.pc = "upsert", !.hadDoc = hadDoc, !.curPw = curPw]]
    /\ UNCHANGED <<client, conn, variant, omitUndefined, admins, seedPc, config, res, blogs, nextId>>

PostConfigFindHandler(s, body, ok) ==
    /\ ConfigHasGate(variant)
    /\ reqs[s].pc \in {"idle", "done"}
    /\ LET hadDoc == config # <<>>
           curPw == IF hadDoc THEN Head(config).adminPassword ELSE NoHash
           isValid == BcryptCompare(OrEmpty(body.currentPassword), curPw)
           r == [IdleReq EXCEPT !.body = body]
       IN  reqs' = [reqs EXCEPT ![s] =
                IF ~ok THEN Answered(r, 500)
                ELSE IF hadDoc /\ Truthy(body.adminPassword) /\ ~isValid
                     THEN Answered([r EXCEPT !.hadDoc = hadDoc, !.curPw = curPw], 401)
                ELSE [r EXCEPT !.pc = "upsert", !.hadDoc = hadDoc, !.curPw = curPw]]
    /\ UNCHANGED <<conn, variant, omitUndefined, admins, seedPc, config, res, blogs, nextId>>

PostConfigFind(s, body, ok) == PostConfigFindHandler(s, body, ok) /\ UNCHANGED client

PostConfigUpsert(s, salt, ok) ==
    /\ reqs[s].pc = "upsert"
    /\ LET body == reqs[s].body
           update == ConfigUpdate(body, IF Truthy(body.adminPassword)
                                          THEN BcryptHash(body.adminPassword, salt)
                                          ELSE reqs[s].curPw)
       IN  IF ok
             THEN /\ config' = FindOneAndUpdate(config, update)
                  /\ reqs' = [reqs EXCEPT ![s] = Answered(reqs[s], 200)]
             ELSE /\ config' = config
                  /\ reqs' = [reqs EXCEPT ![s] = Answered(reqs[s], 500)]
    /\ UNCHANGED <<client, conn, variant, omitUndefined, admins, seedPc, res, blogs, nextId>>

\* POST /api/config of part_000: one findOneAndUpdate, the password hashed
\* whether or not one was sent, nothing caught.
PostConfigNoGate(s, body, salt, ok) ==
    /\ ~ConfigHasGate(variant)
    /\ reqs[s].pc \in {"idle", "done"}
    /\ LET update == ConfigUpdate(body, BcryptHash(OrEmpty(body.adminPassword), salt))
           r == [IdleReq EXCEPT !.body = body]
       IN  IF ok
             THEN /\ config' = FindOneAndUpdate(config, update)
                  /\ reqs' = [reqs EXCEPT ![s] = Answered(r, 200)]
             ELSE /\ config' = config
                  /\ reqs' = [reqs EXCEPT ![s] = Answered(r, Thrown(variant))]
    /\ UNCHANGED <<client, conn, variant, omitUndefined, admins, seedPc, res, blogs, nextId>>

----------------------------------------------------------------------------
\* The config service under concurrent requests: NumSlots requests in flight.
Next ==
    \/ \E s \in Slots, b \in PwBodies, ok \in BOOLEAN : PostConfigFind(s, b, ok)
    \/ \E s \in Slots, salt \in Salts, ok \in BOOLEAN : PostConfigUpsert(s, salt, ok)
    \/ \E s \in Slots, b \in PwBodies, salt \in Salts, ok \in BOOLEAN :
          PostConfigNoGate(s, b, salt, ok)

Spec == Init /\ [][Next]_vars

----------------------------------------------------------------------------
\* Properties of the config service.

\* The hash verifies the password: it is a hash, made from that password.
Verifies(password, hash) == hash # NoHash /\ hash[1] = password

StoredHash == IF config = <<>> THEN NoHash ELSE Head(config).adminPassword

IsRotation(r) == Truthy(r.body.adminPassword)

\* C1: in the variants that carry the rotation gate, a config update that
\* supplies a new admin password while a document with a stored hash exists,
\* and whose currentPassword is absent or does not verify against that hash,
\* is answered 401 at its findOne and leaves the config collection as it was;
\* the same request without currentPassword, when its findOne found no
\* document, is answered 200 by its upsert, and the stored hash is then the
\* hash of the new password.
C1_RotationGate ==
    [][\A s \in Slots :
         /\ \A b \in PwBodies :
              ( /\ PostConfigFind(s, b, TRUE)
                /\ Truthy(b.adminPassword)
                /\ StoredHash # NoHash
                /\ ~Verifies(OrEmpty(b.currentPassword), StoredHash) )
              => /\ reqs'[s].pc = "done"
                 /\ reqs'[s].status = 401
                 /\ config' = config
         /\ ( /\ reqs[s].pc = "upsert"
              /\ IsRotation(reqs[s])
              /\ ~reqs[s].hadDoc
              /\ reqs[s].body.currentPassword = Undefined
              /\ \E salt \in Salts : PostConfigUpsert(s, salt, TRUE) )
            => /\ reqs'[s].pc = "done"
               /\ reqs'[s].status = 200
               /\ Verifies(reqs[s].body.adminPassword, StoredHash') ]_vars

\* A rotation without currentPassword was refused against a stored hash that
\* is still the stored one, and another, sent when no document existed, was
\* accepted.
C1_Witness ==
    \E s, t \in Slots :
        /\ reqs[s].pc = "done" /\ reqs[s].status = 401 /\ IsRotation(reqs[s])
        /\ reqs[s].body.currentPassword = Undefined
        /\ reqs[s].curPw # NoHash /\ StoredHash = reqs[s].curPw
        /\ reqs[t].pc = "done" /\ reqs[t].status = 200 /\ IsRotation(reqs[t])
        /\ reqs[t].body.currentPassword = Undefined /\ ~reqs[t].hadDoc

\* C3: when the only two requests that have run are two answered rotations
\* to different new passwords (in whatever order their findOne and upsert
\* steps interleaved), the stored hash is the hash of exactly one of the two
\* new passwords.
C3_RaceFinalHash ==
    \A s, t \in Slots :
        ( /\ s # t
          /\ \A u \in Slots \ {s, t} : reqs[u].pc = "idle"
          /\ reqs[s].pc = "done" /\ reqs[s].status = 200 /\ IsRotation(reqs[s])
          /\ reqs[t].pc = "done" /\ reqs[t].status = 200 /\ IsRotation(reqs[t])
          /\ reqs[s].body.adminPassword # reqs[t].body.adminPassword )
        => Verifies(reqs[s].body.adminPassword, StoredHash)
             # Verifies(reqs[t].body.adminPassword, StoredHash)

\* Two rotations to different passwords both passed the gate against the
\* same stored hash, of a third password both sent as currentPassword, and
\* both were answered 200: each read before the other wrote.
C3_Witness ==
    \E s, t \in Slots :
        /\ s # t
        /\ ConfigHasGate(variant)
        /\ reqs[s].pc = "done" /\ reqs[s].status = 200 /\ IsRotation(reqs[s])
        /\ reqs[t].pc = "done" /\ reqs[t].status = 200 /\ IsRotation(reqs[t])
        /\ reqs[s].body.adminPassword # reqs[t].body.adminPassword
        /\ reqs[s].curPw # NoHash /\ reqs[s].curPw = reqs[t].curPw
        /\ reqs[s].body.currentPassword = reqs[t].body.currentPassword
        /\ Verifies(reqs[s].body.currentPassword, reqs[s].curPw)
        /\ ~Verifies(reqs[s].body.adminPassword, reqs[s].curPw)
        /\ ~Verifies(reqs[t].body.adminPassword, reqs[t].curPw)

\* C4: in the variant of part_002, a rotation without currentPassword whose
\* findOne found a document that holds no password hash, and that met no
\* storage error, is answered 200.
C4_GatePassesWithoutPriorHash ==
    \A s \in Slots :
        ( /\ variant = "part_002"
          /\ reqs[s].pc = "done" /\ IsRotation(reqs[s])
          /\ reqs[s].body.currentPassword = Undefined
          /\ reqs[s].hadDoc /\ reqs[s].curPw = NoHash
          /\ reqs[s].status # 500 )
        => reqs[s].status = 200

----------------------------------------------------------------------------
\* The auth service: the admin seed of NumStarts process starts and the auth
\* endpoint.
NextAuth ==
    \/ \E p \in Starts, ok \in BOOLEAN : SeedCount(p, ok)
    \/ \E p \in Starts, salt \in Salts, ok \in BOOLEAN : SeedCreate(p, salt, ok)
    \/ \E u \in Usernames, pw \in AuthPasswords, ok \in BOOLEAN : PostAuth(u, pw, ok)

SpecAuth == Init /\ [][NextAuth]_vars

\* The auth service beside password rotations through the config service,
\* one config request at a time.
NextRotate ==
    \/ NextAuth
    \/ \E b \in PwBodies, ok \in BOOLEAN : PostConfigFind(1, b, ok)
    \/ \E salt \in Salts, ok \in BOOLEAN : PostConfigUpsert(1, salt, ok)

SpecRotate == Init /\ [][NextRotate]_vars

----------------------------------------------------------------------------
\* Properties of the auth service.

\* An AdminCredential with that identifier exists and the password verifies
\* against its stored hash.
GoodCredentials(username, password) ==
    \E i \in DOMAIN admins :
        admins[i].email = username /\ Verifies(password, admins[i].password)

\* C2: in the variant of part_002, once the store is seeded, an
\* authenticate('admin', pw) that meets no storage error succeeds with the
\* default password while no password has been rotated; once the config
\* service stores the hash of a rotated password, it fails with the default
\* (old) password and succeeds with the rotated one.
C2_AuthFollowsRotation ==
    [][\A pw \in AuthPasswords :
         ( /\ variant = "part_002"
           /\ admins # <<>>
           /\ PostAuth("admin", pw, TRUE) )
         => IF StoredHash = NoHash
              THEN pw = DefaultPassword => res'.status = 200
              ELSE /\ Verifies(pw, StoredHash) => res'.status = 200
                   /\ (pw = DefaultPassword /\ ~Verifies(pw, StoredHash))
                        => res'.status = 401 ]_vars

\* C5: an auth request that meets no storage error is answered 200 exactly
\* when an AdminCredential with the submitted identifier exists and the
\* submitted password verifies against its hash; with both fields present it
\* is answered 401 in every other case.
C5_AuthIff ==
    [][\A u \in Usernames, pw \in AuthPasswords :
         PostAuth(u, pw, TRUE)
         => /\ res'.status = 200 <=> GoodCredentials(u, pw)
            /\ (Truthy(u) /\ Truthy(pw) /\ ~GoodCredentials(u, pw))
                 => res'.status = 401 ]_vars

\* The seeded admin authenticated with the default password.
C5_Witness ==
    /\ res.ep = "auth" /\ res.status = 200
    /\ res.username = "admin" /\ res.password = DefaultPassword
    /\ admins # <<>>

\* C6: in the variants of part_002 and part_000, an auth request whose
\* username or password is missing or empty (storage being reachable) is
\* answered 400 and performs no AdminCredential lookup and no hash comparison.
C6_FailsClosed ==
    ( /\ variant \in {"part_002", "part_000"}
      /\ res.ep = "auth"
      /\ res.dbOk
      /\ (~Truthy(res.username) \/ ~Truthy(res.password)) )
    => /\ res.status = 400
       /\ ~res.lookedUp
       /\ ~res.compared

----------------------------------------------------------------------------
\* Blog CRUD. A BlogPost is [id, title, content, seoTitle, seoDescription,
\* createdAt, status]; ids are the ObjectIds of the collection in creation
\* order, never reused; a request id below 1 is a string that is no ObjectId;
\* createdAt is the time of creation on the clock that ticks at every create.
BlogValidates(v) == v = "part_002"

BlogNotFound404(v) == v \in {"server_js", "part_002"}

CreatedStatus(v) == IF v = "part_002" THEN 201 ELSE 200

ValidObjectId(id) == id >= 1

BlogBodies ==
    [title : {Undefined, "", "t1", "t2"},
     content : {Undefined, "c1"},
     seoTitle : {Undefined, "s1"},
     seoDescription : {Undefined, "d1"}]

ReqIds == 0..MaxBlogs

BlogIds == {b.id : b \in blogs}

\* Blog.findById(id): the set holding the post with that id, or {}.
FindById(id) == {b \in blogs : b.id = id}

\* new Blog({ title, content, seoTitle, seoDescription }): the schema
\* defaults fill createdAt and status.
NewBlogNoSeo(id, body) ==
    [id |-> id, title |-> body.title, content |-> body.content,
     seoTitle |-> body.seoTitle, seoDescription |-> Undefined,
     createdAt |-> id, status |-> "published"]

NewBlog(id, body) ==
    [id |-> id, title |-> body.title, content |-> body.content,
     seoTitle |-> body.seoTitle, seoDescription |-> body.seoDescription,
     createdAt |-> id, status |-> "published"]

\* The document findByIdAndUpdate leaves for old under the update body.
UpdatedBlog(old, body) ==
    [old EXCEPT !.title = SetPath(old.title, body.title, Undefined),
                !.content = SetPath(old.content, body.content, Undefined),
                !.seoTitle = SetPath(old.seoTitle, body.seoTitle, Undefined),
                !.seoDescription = SetPath(old.seoDescription, body.seoDescription, Undefined)]

BlogRejectedNever(v, body) == FALSE

\* if (!title || !content) return res.status(400)
BlogRejected(v, body) == BlogValidates(v) /\ (~Truthy(body.title) \/ ~Truthy(body.content))

GetBlogsHandler(ok) ==
    /\ res' = IF ok THEN [ep |-> "getBlogs", n |-> 1 - res.n, status |-> 200, body |-> blogs]
                    ELSE [ep |-> "getBlogs", n |-> 1 - res.n, status |-> Thrown(variant), body |-> {}]
    /\ UNCHANGED <<conn, variant, omitUndefined, admins, seedPc, config, reqs, blogs, nextId>>

GetBlogs(ok) == GetBlogsHandler(ok) /\ UNCHANGED client

PostBlogsHandler(body, ok) ==
    /\ nextId <= MaxBlogs
    /\ IF BlogRejected(variant, body)
         THEN /\ res' = [ep |-> "postBlogs", n |-> 1 - res.n, status |-> 400, id |-> 0]
              /\ UNCHANGED <<blogs, nextId>>
         ELSE IF ~ok
         THEN /\ res' = [ep |-> "postBlogs", n |-> 1 - res.n, status |-> Thrown(variant), id |-> 0]
              /\ UNCHANGED <<blogs, nextId>>
         ELSE /\ blogs' = blogs \cup {NewBlog(nextId, body)}
              /\ nextId' = nextId + 1
              /\ res' = [ep |-> "postBlogs", n |-> 1 - res.n, status |-> CreatedStatus(variant), id |-> nextId]
    /\ UNCHANGED <<conn, variant, omitUndefined, admins, seedPc, config, reqs>>

PostBlogs(body, ok) == PostBlogsHandler(body, ok) /\ UNCHANGED client

PutBlogHandler(id, body, ok) ==
    /\ IF BlogRejected(variant, body)
         THEN /\ res' = [ep |-> "putBlog", n |-> 1 - res.n, status |-> 400, id |-> id]
              /\ blogs' = blogs
         ELSE IF ~ok \/ ~ValidObjectId(id)
         THEN /\ res' = [ep |-> "putBlog", n |-> 1 - res.n, status |-> Thrown(variant), id |-> id]
              /\ blogs' = blogs
         ELSE IF FindById(id) = {}
         THEN /\ res' = [ep |-> "putBlog", n |-> 1 - res.n, id |-> id,
                         status |-> IF BlogNotFound404(variant) THEN 404 ELSE 200]
              /\ blogs' = blogs
         ELSE /\ blogs' = {IF b.id = id THEN UpdatedBlog(b, body) ELSE b : b \in blogs}
              /\ res' = [ep |-> "putBlog", n |-> 1 - res.n, status |-> 200, id |-> id]
    /\ UNCHANGED <<conn, variant, omitUndefined, admins, seedPc, config, reqs, nextId>>

PutBlog(id, body, ok) == PutBlogHandler(id, body, ok) /\ UNCHANGED client

DeleteBlogHandler(id, ok) ==
    /\ IF ~ok \/ ~ValidObjectId(id)
         THEN /\ res' = [ep |-> "deleteBlog", n |-> 1 - res.n, status |-> Thrown(variant), id |-> id]
              /\ blogs' = blogs
         ELSE IF FindById(id) = {}
         THEN /\ res' = [ep |-> "deleteBlog", n |-> 1 - res.n, id |-> id,
                         status |-> IF BlogNotFound404(variant) THEN 404 ELSE 200]
              /\ blogs' = blogs
         ELSE /\ blogs' = blogs \ FindById(id)
              /\ res' = [ep |-> "deleteBlog", n |-> 1 - res.n, status |-> 200, id |-> id]
    /\ UNCHANGED <<conn, variant, omitUndefined, admins, seedPc, config, reqs, nextId>>

DeleteBlog(id, ok) == DeleteBlogHandler(id, ok) /\ UNCHANGED client

\* The bodies that send no SEO field.
CoreBodies == {b \in BlogBodies : b.seoTitle = Undefined /\ b.seoDescription = Undefined}

\* The content service of every variant: blog requests one after another
\* (each is a single database operation), none sending an SEO field.
NextBlog ==
    \/ \E ok \in BOOLEAN : GetBlogs(ok)
    \/ \E b \in CoreBodies, ok \in BOOLEAN : PostBlogs(b, ok)
    \/ \E id \in ReqIds, b \in CoreBodies, ok \in BOOLEAN : PutBlog(id, b, ok)
    \/ \E id \in ReqIds, ok \in BOOLEAN : DeleteBlog(id, ok)

SpecBlog == Init /\ [][NextBlog]_vars

\* The content service of part_002, driven with every body.
InitHardened == Init /\ variant = "part_002"

NextBlogHardened ==
    \/ \E ok \in BOOLEAN : GetBlogs(ok)
    \/ \E b \in BlogBodies, ok \in BOOLEAN : PostBlogs(b, ok)
    \/ \E id \in ReqIds, b \in BlogBodies, ok \in BOOLEAN : PutBlog(id, b, ok)
    \/ \E id \in ReqIds, ok \in BOOLEAN : DeleteBlog(id, ok)

SpecBlogHardened == InitHardened /\ [][NextBlogHardened]_vars

----------------------------------------------------------------------------
\* Properties of the content service.

ValidBlogBody(b) == Truthy(b.title) /\ Truthy(b.content)

\* C8: in the variants of part_002 and part_000, an update with a valid body
\* on a well-formed id that resolves to no BlogPost (never created, or
\* deleted earlier), storage being reachable, is answered 404 and leaves the
\* stored BlogPosts as they were.
C8_UpdateMissingIsNotFound ==
    [][\A id \in ReqIds, b \in BlogBodies :
         ( /\ variant \in {"part_002", "part_000"}
           /\ ValidBlogBody(b)
           /\ ValidObjectId(id)
           /\ FindById(id) = {}
           /\ PutBlog(id, b, TRUE) )
         => res'.status = 404 /\ blogs' = blogs ]_vars

\* C9: in the variants of part_002 and part_000, storage being reachable, a
\* delete of an existing BlogPost is answered 200 and removes exactly that
\* post, and a delete of an id whose post was deleted earlier is answered 404.
C9_DeleteTwice ==
    [][\A id \in ReqIds :
         ( /\ variant \in {"part_002", "part_000"}
           /\ ValidObjectId(id)
           /\ DeleteBlog(id, TRUE) )
         => /\ FindById(id) # {}
                 => /\ res'.status = 200
                    /\ blogs' = {b \in blogs : b.id # id}
                    /\ Cardinality(blogs') = Cardinality(blogs) - 1
            /\ (FindById(id) = {} /\ id < nextId) => res'.status = 404 ]_vars

\* C10: a create with non-empty title and content that meets no storage
\* error is answered 200 or 201 and adds exactly one BlogPost, with a fresh
\* id, the submitted title, content, seoTitle and seoDescription and status
\* 'published', to the stored posts, every earlier post staying as it was;
\* and a list that meets no storage error returns the stored posts.
C10_CreateThenList ==
    [][/\ \A b \in BlogBodies :
            (ValidBlogBody(b) /\ PostBlogs(b, TRUE))
            => /\ res'.status \in {200, 201}
               /\ \E new \in blogs' :
                    /\ new.id \notin BlogIds
                    /\ new.id = res'.id
                    /\ new.title = b.title /\ new.content = b.content
                    /\ new.seoTitle = b.seoTitle
                    /\ new.seoDescription = b.seoDescription
                    /\ new.status = "published"
                    /\ blogs' = blogs \cup {new}
                    /\ Cardinality(blogs') = Cardinality(blogs) + 1
       /\ GetBlogs(TRUE) => res'.status = 200 /\ res'.body = blogs ]_vars

\* A list returned two posts, the second created beside the first, with
\* every submitted field.
C10_Witness ==
    /\ res.ep = "getBlogs" /\ res.status = 200
    /\ res.body = blogs
    /\ Cardinality(blogs) = 2
    /\ \E b \in blogs :
         /\ b.id = 2 /\ b.title = "t2" /\ b.content = "c1"
         /\ b.seoTitle = "s1" /\ b.seoDescription = "d1" /\ b.status = "published"

\* C11: in the variants of part_002 and server.js, a create or an update
\* whose title or content is missing or empty, storage being reachable, is
\* answered 400 and leaves every stored BlogPost as it was.
C11_EmptyIsRejected ==
    [][\A b \in BlogBodies :
         ( /\ variant \in {"part_002", "server_js"}
           /\ ~ValidBlogBody(b)
           /\ \/ PostBlogs(b, TRUE)
              \/ \E id \in ReqIds : ValidObjectId(id) /\ PutBlog(id, b, TRUE) )
         => res'.status = 400 /\ blogs' = blogs ]_vars

\* C12: in the variant of part_002, an update with non-empty title and
\* content of an existing BlogPost, storage being reachable, is answered 200,
\* gives every key the request provides the provided value, leaves every key
\* it does not provide (an omitted seoTitle or seoDescription, and always
\* createdAt and status) at its prior value, and leaves every other post as
\* it was.
C12_UpdateOverwritesProvided ==
    [][\A id \in ReqIds, b \in BlogBodies :
         ( /\ variant = "part_002"
           /\ ValidBlogBody(b)
           /\ FindById(id) # {}
           /\ PutBlog(id, b, TRUE) )
         => /\ res'.status = 200
            /\ \E old \in blogs, new \in blogs' :
                 /\ old.id = id /\ new.id = id
                 /\ blogs' \ {new} = blogs \ {old}
                 /\ new.title = b.title /\ new.content = b.content
                 /\ new.seoTitle = (IF b.seoTitle = Undefined THEN old.seoTitle ELSE b.seoTitle)
                 /\ new.seoDescription = (IF b.seoDescription = Undefined
                                            THEN old.seoDescription ELSE b.seoDescription)
                 /\ new.createdAt = old.createdAt
                 /\ new.status = old.status ]_vars

----------------------------------------------------------------------------
\* GET /api/config (the variants that carry the endpoint): Config.findOne(),
\* answered with the document, or with {} when there is none.
HasGetConfig(v) == v \in {"server_js", "part_002"}

\* config || {}: an object with no key.
ConfigFallback == EmptyConfig

GetConfigHandler(ok) ==
    /\ HasGetConfig(variant)
    /\ res' = IF ok
                THEN [ep |-> "getConfig", n |-> 1 - res.n, status |-> 200,
                      body |-> IF config = <<>> THEN ConfigFallback ELSE Head(config)]
                ELSE [ep |-> "getConfig", n |-> 1 - res.n, status |-> Thrown(variant),
                      body |-> ConfigFallback]
    /\ UNCHANGED <<conn, variant, omitUndefined, admins, seedPc, config, reqs, blogs, nextId>>

GetConfig(ok) == GetConfigHandler(ok) /\ UNCHANGED client

\* The body that supplies the title 'X' and nothing else, and the one that
\* supplies every site field.
TitleOnly == [NoBody EXCEPT !.title = "X"]

FullSite ==
    [NoBody EXCEPT !.title = "T", !.favicon = "F", !.banner = "B",
                   !.seo = "S", !.homepageAd = "H"]

\* The bodies of the site updates: no site field, the title alone, or every
\* site field; with or without adminUsername, a new password and the current
\* password.
SiteBodies ==
    {[d EXCEPT !.adminUsername = u, !.adminPassword = a, !.currentPassword = c] :
        d \in {NoBody, TitleOnly, FullSite}, u \in {Undefined, "root"},
        a \in {Undefined, "pwA"}, c \in {Undefined, "pwA"}}

\* The config service, one update at a time, beside config reads.
NextConfig ==
    \/ \E ok \in BOOLEAN : GetConfig(ok)
    \/ \E b \in SiteBodies, ok \in BOOLEAN : PostConfigFind(1, b, ok)
    \/ \E salt \in Salts, ok \in BOOLEAN : PostConfigUpsert(1, salt, ok)
    \/ \E b \in SiteBodies, salt \in Salts, ok \in BOOLEAN : PostConfigNoGate(1, b, salt, ok)

SpecConfig == Init /\ [][NextConfig]_vars

----------------------------------------------------------------------------
\* Properties of the config reads and of sequential config updates.

\* C13: in the variant of part_002, a config read that meets no storage
\* error while no Config document exists is answered 200 with a body in
\* which the keys title, favicon, banner, seo and homepageAd are all present.
C13_DefaultConfigShape ==
    [][( /\ variant = "part_002"
         /\ config = <<>>
         /\ GetConfig(TRUE) )
       => /\ res'.status = 200
          /\ res'.body.title # Undefined
          /\ res'.body.favicon # Undefined
          /\ res'.body.banner # Undefined
          /\ res'.body.seo # Undefined
          /\ res'.body.homepageAd # Undefined ]_vars

\* C14: in the variant of part_002, a config update that supplies only the
\* title 'X', run alone on an existing document and meeting no storage
\* error, is answered 200 and leaves a document whose title is 'X' and whose
\* favicon, banner, seo, homepageAd, adminUsername and password hash are what
\* they were before; and a config read then returns that document.
C14_PartialMerge ==
    [][/\ ( /\ variant = "part_002"
            /\ reqs[1].pc = "upsert"
            /\ reqs[1].body = TitleOnly
            /\ config # <<>>
            /\ \E salt \in Salts : PostConfigUpsert(1, salt, TRUE) )
          => /\ reqs'[1].status = 200
             /\ config' = <<[Head(config) EXCEPT !.title = "X"]>>
       /\ ( /\ variant = "part_002"
            /\ config # <<>>
            /\ GetConfig(TRUE) )
          => res'.status = 200 /\ res'.body = Head(config) ]_vars

\* C15: in the variants of part_002 and part_000, a config update that
\* supplies no new admin password, run with no other config update in flight
\* and meeting no storage error, leaves the stored admin password hash
\* exactly as it was.
C15_HashRetained ==
    [][( /\ variant \in {"part_002", "part_000"}
         /\ \/ /\ reqs[1].pc = "upsert"
               /\ ~Truthy(reqs[1].body.adminPassword)
               /\ \E salt \in Salts : PostConfigUpsert(1, salt, TRUE)
            \/ \E b \in SiteBodies, salt \in Salts :
                  ~Truthy(b.adminPassword) /\ PostConfigNoGate(1, b, salt, TRUE) )
       => StoredHash' = StoredHash ]_vars

----------------------------------------------------------------------------
\* The config service under concurrent updates beside config reads: NumSlots
\* updates in flight, each a rotation, an update that sends nothing, or the
\* title alone.
RaceBodies == {b \in PwBodies : b.adminPassword \in {Undefined, "pwA"}} \cup {TitleOnly}

NextSingleton ==
    \/ \E ok \in BOOLEAN : GetConfig(ok)
    \/ \E s \in Slots, b \in RaceBodies, ok \in BOOLEAN : PostConfigFind(s, b, ok)
    \/ \E s \in Slots, salt \in Salts, ok \in BOOLEAN : PostConfigUpsert(s, salt, ok)
    \/ \E s \in Slots, b \in RaceBodies, salt \in Salts, ok \in BOOLEAN :
          PostConfigNoGate(s, b, salt, ok)

SpecSingleton == Init /\ [][NextSingleton]_vars

\* C16: whatever config reads and config updates ran, and however the
\* findOne and findOneAndUpdate steps of concurrent updates interleaved, the
\* Config collection holds at most one document.
C16_Singleton == Len(config) <= 1

\* Two updates both found no document, both upserted and were answered 200,
\* and a config read then returned the one document.
C16_Witness ==
    /\ \E s, t \in Slots :
         /\ s # t
         /\ reqs[s].pc = "done" /\ reqs[s].status = 200 /\ ~reqs[s].hadDoc
         /\ reqs[t].pc = "done" /\ reqs[t].status = 200 /\ ~reqs[t].hadDoc
    /\ Len(config) = 1
    /\ res.ep = "getConfig" /\ res.status = 200 /\ res.body = Head(config)

----------------------------------------------------------------------------
\* Properties of the admin seed.

\* C17: after any number of process starts, whether their countDocuments and
\* create steps ran one start after another or overlapped, at most one
\* AdminCredential with identifier 'admin' exists.
C17_SeedNoDuplicate == AdminCount <= 1

\* C18: in the variant of part_002, no auth request reaches the
\* AdminCredential lookup before the admin seed of some process start has
\* completed (created the record, or skipped because it exists); so
\* authenticate('admin', default password) with storage reachable is not
\* answered 401 while no seed has completed.
C18_SeedBeforeAuth ==
    [][\A u \in Usernames, pw \in AuthPasswords :
         ( /\ variant = "part_002"
           /\ PostAuth(u, pw, TRUE)
           /\ res'.lookedUp )
         => \E p \in Starts : seedPc[p] = "done" ]_vars

----------------------------------------------------------------------------
\* The storage connection at startup. part_001 connects once; the other
\* variants connect through connectWithRetry.
AllVariants == Variants \cup {"part_001"}

HasRetry(v) == v # "part_001"

\* setTimeout(connectWithRetry, 5000), in seconds.
RetryDelay == 5

InitConnect ==
    /\ variant \in AllVariants
    /\ omitUndefined \in BOOLEAN
    /\ admins = <<>>
    /\ seedPc = [p \in Starts |-> "start"]
    /\ config = <<>>
    /\ reqs = [s \in Slots |-> IdleReq]
    /\ res = NoRes
    /\ blogs = {}
    /\ nextId = 1
    /\ conn \in {ConnStart(up) : up \in BOOLEAN}
    /\ client = StoreCreated(FreshSession)

\* What a settled connect leaves: connected, or the backoff timer armed by the
\* catch of connectWithRetry.
Settled(c, v) ==
    IF c.up THEN [c EXCEPT !.pc = "connected"]
    ELSE IF HasRetry(v) THEN [c EXCEPT !.pc = "backoff", !.timer = RetryDelay]
    ELSE [c EXCEPT !.pc = "failed"]

\* The promise of mongoose.connect settles.
ConnectSettles ==
    /\ conn.pc = "connecting"
    /\ conn' = Settled(conn, variant)
    /\ UNCHANGED <<client, variant, omitUndefined, admins, seedPc, config, reqs, res, blogs, nextId>>

\* A second of the backoff passes.
Tick ==
    /\ conn.pc = "backoff"
    /\ conn.timer > 0
    /\ conn' = [conn EXCEPT !.timer = conn.timer - 1]
    /\ UNCHANGED <<client, variant, omitUndefined, admins, seedPc, config, reqs, res, blogs, nextId>>

\* The timer fires: connectWithRetry runs again.
TimerFires ==
    /\ conn.pc = "backoff"
    /\ conn.timer = 0
    /\ conn' = [conn EXCEPT !.pc = "connecting",
                            !.attempts = IF conn.attempts < MaxAttempts
                                           THEN conn.attempts + 1 ELSE MaxAttempts]
    /\ UNCHANGED <<client, variant, omitUndefined, admins, seedPc, config, reqs, res, blogs, nextId>>

\* Storage becomes reachable, or unreachable.
StorageFlips ==
    /\ conn' = [conn EXCEPT !.up = ~conn.up]
    /\ UNCHANGED <<client, variant, omitUndefined, admins, seedPc, config, reqs, res, blogs, nextId>>

NextConnect == ConnectSettles \/ Tick \/ TimerFires \/ StorageFlips

\* A pending connect settles (within the server selection timeout) and an
\* armed timer runs down and fires.
SpecConnect ==
    /\ InitConnect /\ [][NextConnect]_vars
    /\ WF_vars(ConnectSettles) /\ WF_vars(Tick) /\ WF_vars(TimerFires)

\* C19: every failed connection attempt is followed by another attempt, which
\* the backoff timer starts when its 5 seconds have run down; and if storage
\* becomes reachable and stays so, a connection is eventually established.
C19_RetriesUntilConnected ==
    /\ [][conn'.pc = "connecting" /\ conn.pc # "connecting"
            => conn.pc = "backoff" /\ conn.timer = 0]_vars
    /\ (conn.pc \in {"backoff", "failed"}) ~> (conn.pc = "connecting")
    /\ <>[](conn.up) => <>(conn.pc = "connected")

----------------------------------------------------------------------------
\* C20: in the variants of part_002 and part_000, a blog request whose
\* database operation fails with a storage error is answered, with status
\* 500: no such request ends without a response.
C20_StorageErrorIs500 ==
    [][\A b \in CoreBodies, id \in ReqIds :
         ( /\ variant \in {"part_002", "part_000"}
           /\ \/ GetBlogs(FALSE)
              \/ ~BlogRejected(variant, b) /\ PostBlogs(b, FALSE)
              \/ ~BlogRejected(variant, b) /\ PutBlog(id, b, FALSE)
              \/ DeleteBlog(id, FALSE) )
         => res'.status = 500 ]_vars

----------------------------------------------------------------------------
\* The client state store and the Admin page that drives it, against the
\* server of part_002. The request of an operation is handled by the server
\* in one step and its response received by the store in the next one the
\* store takes; the two fetches of initialize are served and received apart
\* and its Promise.all settles in a step of its own; the config update
\* reaches the server's findOne when it is issued and is answered by the
\* server's upsert step. No password is rotated here, so the Config document
\* and the store's config hold no password hash.

\* res.json(blog): the JSON of a Mongoose document carries _id, and no id.
ToJson(post) ==
    [_id |-> post.id, title |-> post.title, content |-> post.content,
     seoTitle |-> post.seoTitle, seoDescription |-> post.seoDescription,
     createdAt |-> post.createdAt, status |-> post.status]

\* p.id of a post of the store: undefined (equal to no request id) when the
\* object has no id key.
NoId == -1

IdOf(p) == IF "id" \in DOMAIN p THEN p.id ELSE NoId

\* res.json(blogs): the posts in the order of the collection.
RECURSIVE JsonList(_)
JsonList(S) ==
    IF S = {} THEN <<>>
    ELSE LET first == CHOOSE b \in S : \A c \in S : b.id <= c.id
         IN  <<ToJson(first)>> \o JsonList(S \ {first})

\* The set of a store: the state with the persisted part written through.
Persist(c) == [c EXCEPT !.persisted = Partialize(c)]

\* The render guards of the Admin page: the spinner while loading, the error
\* page while error is set, else the login form or the console.
LoginFormRendered(c) ==
    ~c.loading /\ c.error = NullError /\ ~c.isAuthenticated /\ ~c.effectDue

ConsoleRendered(c) ==
    ~c.loading /\ c.error = NullError /\ c.isAuthenticated /\ ~c.effectDue

HasFreeOp(c) == \E o \in OpIds : c.ops[o].kind = "none"

FreeOp(c) == CHOOSE o \in OpIds : c.ops[o].kind = "none" /\ \A q \in OpIds : c.ops[q].kind = "none" => o <= q

\* set({ loading: true, error: null }) at the head of every operation (which
\* has returned nothing yet).
Started(c, op) ==
    Persist([c EXCEPT !.loading = TRUE, !.error = NullError, !.returned = "none",
                      !.ops[FreeOp(c)] = op])

FailedClearsPosts(c, o, message) ==
    Persist([c EXCEPT !.error = message, !.loading = FALSE, !.blogPosts = <<>>, !.ops[o] = NoOp])

\* The catch of an operation: set({ error, loading: false }).
Failed(c, o, message) ==
    Persist([c EXCEPT !.error = message, !.loading = FALSE, !.ops[o] = NoOp])

ServerUnchanged == UNCHANGED <<conn, variant, omitUndefined, admins, seedPc, config, reqs, res, blogs, nextId>>

\* axios resolves on a 2xx status and rejects on every other one.
Resolves(status) == status \in 200..299

\* The operation o of the store is done: its slot is free again.
Done(c, o) == [c EXCEPT !.ops[o] = NoOp]

\* The response of the server to a request of the store travels in res, one
\* response at a time, until the store receives it.
Received == res' = NoRes /\ UNCHANGED <<conn, variant, omitUndefined, admins, seedPc, config, reqs, blogs, nextId>>

\* useEffect(() => { if (isAuthenticated) fetchData() }): the effect that is
\* due after the mount and after isAuthenticated changed calls initialize.
EffectInitialize ==
    /\ client.effectDue
    /\ HasFreeOp(client)
    /\ client' = IF client.isAuthenticated
                   THEN Started([client EXCEPT !.effectDue = FALSE], OpOf("initialize"))
                   ELSE [client EXCEPT !.effectDue = FALSE]
    /\ ServerUnchanged

\* axios.get(/api/config) of the initialize o: the server answers, and the
\* promise of the fetch settles.
InitFetchConfig(o, ok) ==
    /\ client.ops[o].kind = "initialize"
    /\ client.ops[o].cfg.st = "pending"
    /\ res = NoRes
    /\ GetConfigHandler(ok)
    /\ client' = [client EXCEPT !.ops[o].cfg = InFlight]

InitConfigFetched(o) ==
    /\ client.ops[o].kind = "initialize"
    /\ client.ops[o].cfg.st = "answered"
    /\ client' = [client EXCEPT !.ops[o].cfg =
                    IF Resolves(res.status) THEN Resolved(res.body) ELSE Rejected]
    /\ Received

\* axios.get(/api/blogs) of the initialize o.
InitFetchBlogs(o, ok) ==
    /\ client.ops[o].kind = "initialize"
    /\ client.ops[o].posts.st = "pending"
    /\ res = NoRes
    /\ GetBlogsHandler(ok)
    /\ client' = [client EXCEPT !.ops[o].posts = InFlight]

InitBlogsFetchedApplies(o) ==
    /\ client.ops[o].kind = "initialize"
    /\ client.ops[o].posts.st = "answered"
    /\ client' = IF Resolves(res.status)
                   THEN [client EXCEPT !.ops[o].posts = Resolved(JsonList(res.body)),
                                       !.blogPosts = JsonList(res.body)]
                   ELSE [client EXCEPT !.ops[o].posts = Rejected]
    /\ Received

InitBlogsFetched(o) ==
    /\ client.ops[o].kind = "initialize"
    /\ client.ops[o].posts.st = "answered"
    /\ client' = [client EXCEPT !.ops[o].posts =
                    IF Resolves(res.status) THEN Resolved(JsonList(res.body)) ELSE Rejected]
    /\ Received

\* Promise.all settles: fulfilled when both fetches are, rejected as soon as
\* one is; the try applies both results in one set, the catch sets the error.
InitSettle(o) ==
    /\ client.ops[o].kind = "initialize"
    /\ LET op == client.ops[o]
       IN  \/ /\ op.cfg.st = "ok" /\ op.posts.st = "ok"
              /\ client' = Persist(Done([client EXCEPT !.config = op.cfg.data[1],
                                                       !.blogPosts = op.posts.data[1],
                                                       !.loading = FALSE], o))
           \/ /\ op.cfg.st = "failed" \/ op.posts.st = "failed"
              /\ op.cfg.st # "answered" /\ op.posts.st # "answered"
              /\ client' = Failed(client, o, "Failed to load data from server. Please try again later.")
    /\ ServerUnchanged

\* The login form is submitted: login(username, password) starts.
LoginStart ==
    /\ LoginFormRendered(client)
    /\ HasFreeOp(client)
    /\ client' = Started(client, OpOf("login"))
    /\ ServerUnchanged

\* The server answers the request of the operation o of the given kind.
Serve(o, kind) ==
    /\ client.ops[o].kind = kind
    /\ client.ops[o].cfg.st = "pending"
    /\ res = NoRes
    /\ client' = [client EXCEPT !.ops[o].cfg = InFlight]

\* The store receives the response to the request of its operation o.
Receives(o, kind) ==
    /\ client.ops[o].kind = kind
    /\ client.ops[o].cfg.st = "answered"
    /\ Received

\* POST /api/auth of the login o.
LoginServe(o, username, password, ok) ==
    /\ Serve(o, "login")
    /\ PostAuthHandler(username, password, ok)
    /\ res'.status # 0

LoginSettleSilent(o) ==
    /\ Receives(o, "login")
    /\ client' = IF Resolves(res.status)
                   THEN Persist(Done([client EXCEPT !.isAuthenticated = TRUE,
                                                    !.loading = FALSE,
                                                    !.returned = "true",
                                                    !.effectDue = ~client.isAuthenticated], o))
                   ELSE Persist(Done([client EXCEPT !.loading = FALSE, !.returned = "false"], o))

LoginSettle(o) ==
    /\ Receives(o, "login")
    /\ client' = IF Resolves(res.status)
                   THEN Persist(Done([client EXCEPT !.isAuthenticated = TRUE,
                                                    !.loading = FALSE,
                                                    !.returned = "true",
                                                    !.effectDue = ~client.isAuthenticated], o))
                   ELSE [Failed(client, o, "Authentication failed") EXCEPT !.returned = "false"]

\* logout: () => set({ isAuthenticated: false })
Logout ==
    /\ ConsoleRendered(client)
    /\ client' = Persist([client EXCEPT !.isAuthenticated = FALSE])
    /\ ServerUnchanged

\* A mutation of the console starts: add, update or delete of a blog post.
MutationStart(kind) ==
    /\ ConsoleRendered(client)
    /\ kind = "add" => nextId <= MaxClientPosts
    /\ HasFreeOp(client)
    /\ client' = Started(client, OpOf(kind))
    /\ ServerUnchanged

\* POST /api/blogs of the addBlogPost o.
AddServe(o, body, ok) == Serve(o, "add") /\ PostBlogsHandler(body, ok)

AddSettle(o) ==
    /\ Receives(o, "add")
    /\ client' = IF Resolves(res.status)
                   THEN LET data == ToJson(CHOOSE b \in blogs : b.id = res.id)
                        IN  Persist(Done([client EXCEPT !.blogPosts = Append(client.blogPosts, data),
                                                        !.loading = FALSE], o))
                   ELSE Failed(client, o, "Failed to add blog post")

\* PUT /api/blogs/:id of the updateBlogPost o.
UpdateServe(o, id, body, ok) == Serve(o, "update") /\ PutBlogHandler(id, body, ok)

UpdateSettle(o) ==
    /\ Receives(o, "update")
    /\ client' = IF Resolves(res.status)
                   THEN LET data == ToJson(CHOOSE b \in blogs : b.id = res.id)
                        IN  Persist(Done([client EXCEPT !.blogPosts =
                                            [i \in DOMAIN client.blogPosts |->
                                                IF IdOf(client.blogPosts[i]) = res.id THEN data
                                                ELSE client.blogPosts[i]],
                                          !.loading = FALSE], o))
                   ELSE Failed(client, o, "Failed to update blog post")

\* DELETE /api/blogs/:id of the deleteBlogPost o.
DeleteServe(o, id, ok) == Serve(o, "delete") /\ DeleteBlogHandler(id, ok)

DeleteSettle(o) ==
    /\ Receives(o, "delete")
    /\ client' = IF Resolves(res.status)
                   THEN Persist(Done([client EXCEPT !.blogPosts =
                                            SelectSeq(client.blogPosts, LAMBDA p : IdOf(p) # res.id),
                                          !.loading = FALSE], o))
                   ELSE Failed(client, o, "Failed to delete blog post")

\* { ...currentConfig, ...config }: the keys config carries win.
MergeConfig(current, partial) ==
    [k \in DOMAIN current |->
        IF k # "adminPassword" /\ partial[k] # Undefined THEN partial[k] ELSE current[k]]

\* The JSON body of the merged config (a config that holds no password).
ClientBody(m) ==
    [NoBody EXCEPT !.title = m.title, !.favicon = m.favicon, !.banner = m.banner,
                   !.seo = m.seo, !.homepageAd = m.homepageAd,
                   !.adminUsername = m.adminUsername]

\* The config form is submitted: updateConfig(partial) starts and its POST
\* /api/config reaches the server's findOne.
UpdateConfigStart(partial, ok) ==
    /\ ConsoleRendered(client)
    /\ HasFreeOp(client)
    /\ client.config.adminPassword = NoHash
    /\ LET updatedConfig == MergeConfig(client.config, partial)
       IN  /\ PostConfigFindHandler(1, ClientBody(updatedConfig), ok)
           /\ client' = Started(client, [OpOf("updateConfig") EXCEPT !.cfg = Resolved(updatedConfig)])

\* POST /api/config of the updateConfig o is answered.
UpdateConfigSettle(o) ==
    /\ client.ops[o].kind = "updateConfig"
    /\ reqs[1].pc = "done"
    /\ client' = IF Resolves(reqs[1].status)
                   THEN Persist(Done([client EXCEPT !.config = client.ops[o].cfg.data[1],
                                                    !.loading = FALSE], o))
                   ELSE Failed(client, o, "Failed to update config")
    /\ reqs' = [reqs EXCEPT ![1] = IdleReq]
    /\ UNCHANGED <<conn, variant, omitUndefined, admins, seedPc, config, res, blogs, nextId>>

\* The page is loaded again: the store is created from sessionStorage and
\* initialize is called; the responses to the page before are dropped.
Reload ==
    /\ client' = StoreCreated(client.persisted)
    /\ res' = NoRes
    /\ reqs' = [reqs EXCEPT ![1] = IF reqs[1].pc = "upsert" THEN reqs[1] ELSE IdleReq]
    /\ UNCHANGED <<conn, variant, omitUndefined, admins, seedPc, config, blogs, nextId>>

\* What the forms of the page submit.
ClientLogins == {<<"admin", DefaultPassword>>, <<"admin", "pwA">>}

ClientPost(title) == [title |-> title, content |-> "c1", seoTitle |-> "s1", seoDescription |-> "d1"]

NewPosts == {ClientPost(""), ClientPost("t1")}

EditedPosts == {ClientPost(""), ClientPost("t2")}

ClientIds == 1..MaxClientPosts

ClientPartials == {TitleOnly}

InitClient == Init /\ variant = "part_002" /\ omitUndefined

NextClient ==
    \/ SeedCount(1, TRUE)
    \/ \E salt \in Salts : SeedCreate(1, salt, TRUE)
    \/ EffectInitialize
    \/ \E o \in OpIds, ok \in BOOLEAN : InitFetchConfig(o, ok)
    \/ \E o \in OpIds : InitConfigFetched(o)
    \/ \E o \in OpIds, ok \in BOOLEAN : InitFetchBlogs(o, ok)
    \/ \E o \in OpIds : InitBlogsFetched(o)
    \/ \E o \in OpIds : InitSettle(o)
    \/ LoginStart
    \/ \E o \in OpIds, l \in ClientLogins, ok \in BOOLEAN : LoginServe(o, l[1], l[2], ok)
    \/ \E o \in OpIds : LoginSettle(o)
    \/ Logout
    \/ \E kind \in {"add", "update", "delete"} : MutationStart(kind)
    \/ \E o \in OpIds, b \in NewPosts, ok \in BOOLEAN : AddServe(o, b, ok)
    \/ \E o \in OpIds : AddSettle(o)
    \/ \E o \in OpIds, id \in ClientIds, b \in EditedPosts, ok \in BOOLEAN : UpdateServe(o, id, b, ok)
    \/ \E o \in OpIds : UpdateSettle(o)
    \/ \E o \in OpIds, id \in ClientIds, ok \in BOOLEAN : DeleteServe(o, id, ok)
    \/ \E o \in OpIds : DeleteSettle(o)
    \/ \E partial \in ClientPartials, ok \in BOOLEAN : UpdateConfigStart(partial, ok)
    \/ \E salt \in Salts, ok \in BOOLEAN : PostConfigUpsert(1, salt, ok)
    \/ \E o \in OpIds : UpdateConfigSettle(o)
    \/ Reload

SpecClient == InitClient /\ [][NextClient]_vars

----------------------------------------------------------------------------
\* C21: when the store receives a failure answer to a login (rejected
\* credentials, a rejected body or a failed request), isAuthenticated is left
\* as it was (an unauthenticated store stays unauthenticated), error is set to
\* a message, loading is cleared and login returns false.
C21_LoginFailure ==
    [][\A o \in OpIds :
        (LoginSettle(o) /\ ~Resolves(res.status))
        => /\ client'.isAuthenticated = client.isAuthenticated
           /\ client'.error # NullError
           /\ ~client'.loading
           /\ client'.returned = "false"]_vars

C21_Witness ==
    /\ client.returned = "false"
    /\ ~client.isAuthenticated
    /\ client.error = "Authentication failed"
    /\ ~client.loading

----------------------------------------------------------------------------
\* C22: logout leaves the store unauthenticated, with the persisted auth flag
\* cleared, and with the in-memory state cleared: blogPosts empty and config
\* back at the default.
C22_LogoutClears ==
    [][Logout
        => /\ ~client'.isAuthenticated
           /\ ~client'.persisted.isAuthenticated
           /\ client'.blogPosts = <<>>
           /\ client'.config = DefaultClientConfig]_vars

----------------------------------------------------------------------------
\* C23: when the store receives the server's rejection of a mutation
\* (addBlogPost, updateBlogPost, deleteBlogPost, updateConfig), it ends with
\* an error message and loading false, and the rejection changes neither
\* blogPosts nor config: they are what they were before it.
MutationRejected(o) ==
    \/ AddSettle(o) /\ ~Resolves(res.status)
    \/ UpdateSettle(o) /\ ~Resolves(res.status)
    \/ DeleteSettle(o) /\ ~Resolves(res.status)
    \/ UpdateConfigSettle(o) /\ ~Resolves(reqs[1].status)

----------------------------------------------------------------------------
\* C24: an initialize has its config fetch and its blog-list fetch in flight
\* together; a fetch that resolves changes neither config nor blogPosts; the
\* results are applied, both in one step, only when both fetches resolved;
\* when one failed, the store sets an error and config and blogPosts stay
\* what they were, whatever the other fetch returned.
C24_InitializeAllOrNothing ==
    [][\A o \in OpIds :
        LET op == client.ops[o]
        IN  /\ (InitConfigFetched(o) \/ InitBlogsFetched(o))
               => /\ client'.config = client.config
                  /\ client'.blogPosts = client.blogPosts
                  /\ client'.error = client.error
            /\ InitSettle(o)
               => IF op.cfg.st = "ok" /\ op.posts.st = "ok"
                    THEN /\ client'.config = op.cfg.data[1]
                         /\ client'.blogPosts = op.posts.data[1]
                    ELSE /\ client'.config = client.config
                         /\ client'.blogPosts = client.blogPosts
                         /\ client'.error # NullError
                         /\ ~client'.loading]_vars

\* The blog-list fetch of an initialize resolved with a list that is not the
\* store's, and its config fetch failed.
C24_Witness ==
    \E o \in OpIds :
        /\ client.ops[o].kind = "initialize"
        /\ client.ops[o].cfg.st = "failed"
        /\ client.ops[o].posts.st = "ok"
        /\ client.ops[o].posts.data[1] # client.blogPosts

----------------------------------------------------------------------------
\* C25: in the variants that carry the rotation gate, the upsert of a config
\* update that supplied no new admin password leaves the stored password hash
\* as it is, also when a rotation wrote a new hash after the update's findOne.
C25_NoPasswordUpdateKeepsHash ==
    [][\A s \in Slots, salt \in Salts :
        ( /\ ConfigHasGate(variant)
          /\ ~IsRotation(reqs[s])
          /\ PostConfigUpsert(s, salt, TRUE) )
        => StoredHash' = StoredHash]_vars

----------------------------------------------------------------------------
\* C26: in the content service of part_002, after any sequence of create,
\* update and delete requests every stored BlogPost has a non-empty title, a
\* non-empty content and a status that is 'published' or 'draft'.
C26_StoredPostsValid ==
    \A b \in blogs :
        /\ Truthy(b.title)
        /\ Truthy(b.content)
        /\ b.status \in {"published", "draft"}

\* A post is stored and the update that has just been answered was rejected.
C26_Witness ==
    /\ blogs # {}
    /\ res.ep = "putBlog"
    /\ res.status = 400
    /\ res.id \in BlogIds

----------------------------------------------------------------------------
\* C27: when the store receives the server's acceptance of deleteBlogPost(id),
\* blogPosts holds no post whose identifier is id, and when it receives the
\* acceptance of updateBlogPost(id, post), every entry of blogPosts whose
\* identifier is id equals the post the server returned.
C27_ListFollowsServer ==
    [][\A o \in OpIds :
        /\ (DeleteSettle(o) /\ Resolves(res.status))
           => \A i \in DOMAIN client'.blogPosts : client'.blogPosts[i]._id # res.id
        /\ (UpdateSettle(o) /\ Resolves(res.status))
           => \A i \in DOMAIN client'.blogPosts :
                 client'.blogPosts[i]._id = res.id
                 => client'.blogPosts[i] = ToJson(CHOOSE b \in blogs : b.id = res.id)]_vars

----------------------------------------------------------------------------
\* C28: loading is true whenever an operation of the store (initialize, login
\* or a mutation) has a request in flight, also when two operations overlap.
InFlightOps == {o \in OpIds : client.ops[o].kind # "none"}

C28_LoadingWhileInFlight == InFlightOps # {} => client.loading

----------------------------------------------------------------------------
\* C29: in every state of the page with isAuthenticated false and loading
\* false (so after a failed login, or a failed initialize while
\* unauthenticated) the login form is rendered and a login can be submitted.
C29_LoginFormAvailable ==
    (~client.isAuthenticated /\ ~client.loading /\ ~client.effectDue)
    => (LoginFormRendered(client) /\ (HasFreeOp(client) => ENABLED LoginStart))

----------------------------------------------------------------------------
\* The admin seed at startup, beside the connection. The IIFE runs once, at
\* module load, before any connect has settled: Mongoose buffers its
\* countDocuments and runs it when the connection is established; a release
\* that bounds buffering (bufferTimeoutMS) fails the buffered operation when
\* storage has stayed unreachable past the first failed attempt, and the IIFE
\* ends there (caught and logged in part_002, unhandled elsewhere).
SeedCountBuffered ==
    /\ conn.pc = "connected"
    /\ SeedCount(1, TRUE)

SeedCreateConnected(salt) ==
    /\ conn.pc = "connected"
    /\ SeedCreate(1, salt, TRUE)

SeedBufferTimeout ==
    /\ conn.pc # "connected"
    /\ conn.attempts > 1
    /\ SeedCount(1, FALSE)

InitSeed == InitConnect /\ variant \in Variants

NextSeed ==
    \/ ConnectSettles
    \/ Tick
    \/ TimerFires
    \/ StorageFlips
    \/ SeedCountBuffered
    \/ \E salt \in Salts : SeedCreateConnected(salt)
    \/ SeedBufferTimeout

\* A pending connect settles, an armed timer runs down and fires, and the
\* seed takes its steps once the connection is there.
SpecSeed ==
    /\ InitSeed /\ [][NextSeed]_vars
    /\ WF_vars(ConnectSettles) /\ WF_vars(Tick) /\ WF_vars(TimerFires)
    /\ WF_vars(SeedCountBuffered) /\ WF_vars(\E salt \in Salts : SeedCreateConnected(salt))

\* C30: if the storage connection is eventually established, after however
\* many failed attempts, the default admin credential eventually exists and
\* an auth request for 'admin' with the default password is answered 200.
C30_SeedSurvivesRetry ==
    <>(conn.pc = "connected") => <>(AuthStatus("admin", DefaultPassword, TRUE) = 200)

====
